---- MODULE Spec2Model ----
(***************************************************************************)
(* Model of the server-side synchronization engine of                      *)
(* repliear-row-versioning: the push pipeline of server/src/push.ts        *)
(* (push, processMutation, mutate) over the client / client_group tables   *)
(* and the row store (issue, description, comment).                        *)
(*                                                                         *)
(* One processMutation call is one database transaction; it is modelled as *)
(* one atomic step (the row locks taken at push.ts:76-80 and the           *)
(* transaction of push.ts:68 serialize it with every other transaction on  *)
(* the same rows).  The writes that mutate starts without awaiting them    *)
(* (push.ts:148-153) race with the commit: each of them either runs inside *)
(* the transaction, or is still in flight when the transaction commits.    *)
(***************************************************************************)
EXTENDS Integers, Sequences, FiniteSets, TLC

\* ------------------------------------------------------------------ bounds
MaxId == 2
MaxBatch == 2
\* the highest sync checkpoint, the highest rowversion and the highest LIMIT
\* of the model of the CVR differ
MaxOrder == 3
MaxVersion == 2
MaxLimit == 2
\* the highest base order of a sync where two client groups sync
MaxBase == 1
\* the pulls of a client after the pushes have stopped
MaxRounds == 3

\* the orders a diff can be taken against, and its limits
Orders == 0..MaxOrder
Limits == 1..MaxLimit

Clients == {"c1", "c2"}
Groups == {"g1", "g2"}
Procs == {"p1", "p2"}
IssueIDs == {"i1"}
\* ids are chosen by the clients: a comment can carry the id of an issue
CommentIDs == {"k1", "i1"}

\* ------------------------------------------------------- request vocabulary
\* shared mutationNames, the names z.enum accepts (push.ts:32) and the
\* switch of mutate dispatches on (push.ts:137-163)
mutationNames == {"putIssue", "updateIssues", "putIssueComment", "deleteIssueComment"}
\* a name a newer client could send
UnknownNames == {"archiveIssue"}
AllNames == mutationNames \cup UnknownNames

NoGroup == ""
NoError == "null"
DomainError == "error"

\* one element of the args of updateIssues (issueUpdateWithIDSchema)
Updates == [id : IssueIDs, descriptionChange : BOOLEAN]
UpdateLists == {<<>>} \cup {<<u>> : u \in Updates}

NoArgs == [valid |-> TRUE, issueID |-> "i1", commentID |-> "k1", updates |-> <<>>]

\* the args a mutation of each name can carry; valid = the args pass the
\* name's schema (push.ts:139, 147, 157, 161).  Args that do not pass are all
\* alike: mutate raises before it reads them.
ArgsFor(name) ==
  {[NoArgs EXCEPT !.valid = FALSE]} \cup
  CASE name = "putIssue" ->
         {[NoArgs EXCEPT !.issueID = i] : i \in IssueIDs}
    [] name = "updateIssues" ->
         {[NoArgs EXCEPT !.updates = u] : u \in UpdateLists}
    [] name = "putIssueComment" ->
         {[NoArgs EXCEPT !.issueID = i, !.commentID = k] : i \in IssueIDs, k \in CommentIDs}
    [] name = "deleteIssueComment" ->
         {[NoArgs EXCEPT !.commentID = k] : k \in CommentIDs}
    [] OTHER -> {NoArgs}

\* mutationSchema (push.ts:29-34) without the check of the name
MutationsNamed(name) ==
  {[id |-> i, clientID |-> c, name |-> name, args |-> a] :
     i \in 1..MaxId, c \in Clients, a \in ArgsFor(name)}

NoMutation == [id |-> 0, clientID |-> "c1", name |-> "putIssue", args |-> NoArgs]

\* the sequences of names a request body can carry
RECURSIVE NameSeqs(_)
NameSeqs(n) ==
  IF n = 0 THEN {<<>>}
  ELSE LET shorter == NameSeqs(n - 1)
       IN  shorter \cup {Append(s, x) : s \in {t \in shorter : Len(t) = n - 1}, x \in AllNames}

\* push.ts:32 with name: z.string()
pushRequestSchemaParses_anyName(names) == TRUE
\* pushRequestSchema.parse (push.ts:46): every mutation's name is in z.enum(mutationNames)
pushRequestSchemaParses(names) == \A k \in 1..Len(names) : names[k] \in mutationNames

\* ------------------------------------------------------------------- state
VARIABLES
  clientGroup,   \* client_group table: id -> [clientVersion, cvrVersion]
  client,        \* client table: id -> [clientGroupID, lastMutationID, clientVersion]
  issue,         \* issue table: id -> rowversion, 0 = no such row
  description,   \* description table: id -> rowversion, 0 = no such row
  comment,       \* comment table: id -> rowversion, 0 = no such row
  floating,      \* writes started by mutate and not awaited, still in flight
  pc,            \* per push request: where push() is
  req,           \* per push request: clientGroupID, mutations left, unknown name seen
  cur,           \* per push request: the loop variable `mutation`
  outcome,       \* per push request: how the last processMutation call ended
  pokes,         \* per push request: calls of getPokeBackend().poke()
  hist,          \* history, per (clientID, mutation id): what was committed for it
  scope,         \* the request handlers, clients and client groups that take part
  retry,         \* of a request that is sent again: its length and its mutations so far
  tx,            \* per push request: the open transaction, its row locks and what it read
  cvr_entry,     \* cvr_entry table: rows [client_group_id, order, tbl, row_id, row_version]
  cvr_delete_entry, \* cvr_delete_entry table: rows [client_group_id, order, tbl, row_id]
  view,          \* the client of a client group: its checkpoint and its cache of the rows
  asOf,          \* history: the CVR tables after the last sync recorded at an order <= view.order
  quiescent,     \* no push writes the row store any more
  cvr            \* cvr table: rows [client_group_id, order, client_version]

store == <<clientGroup, client, issue, description, comment>>
vars == <<clientGroup, client, issue, description, comment, floating,
          pc, req, cur, outcome, pokes, hist, scope, retry, tx,
          cvr_entry, cvr_delete_entry, view, asOf, quiescent, cvr>>
\* the variables the push pipeline's atomic steps do not touch
cvrVars == <<cvr_entry, cvr_delete_entry, view, asOf, quiescent, cvr>>
aux == <<tx, cvr_entry, cvr_delete_entry, view, asOf, quiescent, cvr>>

\* the stored tables as one value, the view a transaction reads and writes
DB == [clientGroup |-> clientGroup, client |-> client, issue |-> issue,
       description |-> description, comment |-> comment]

rowStore == <<issue, description, comment>>

\* ------------------------------------------------- row store (server/src/data)
\* a row is written: inserted at rowversion 1, or its rowversion is bumped
putRow(v) == v + 1
\* a row is updated in place: there must be a row
updateRow(v) == IF v = 0 THEN 0 ELSE v + 1

\* a client group / client never seen reads as a row of zeros
getClientGroupForUpdate(db, clientGroupID) == db.clientGroup[clientGroupID]
getClientForUpdate(db, clientID) == db.client[clientID]
putClientGroup(db, cg) ==
  [db EXCEPT !.clientGroup[cg.id] =
     [clientVersion |-> cg.clientVersion, cvrVersion |-> cg.cvrVersion]]
putClient(db, c) ==
  [db EXCEPT !.client[c.id] =
     [clientGroupID |-> c.clientGroupID, lastMutationID |-> c.lastMutationID,
      clientVersion |-> c.clientVersion]]

putIssue(db, id) == [db EXCEPT !.issue[id] = putRow(@)]
putDescription(db, id) == [db EXCEPT !.description[id] = putRow(@)]
updateIssue(db, id) == [db EXCEPT !.issue[id] = updateRow(@)]
updateDescription(db, id) == [db EXCEPT !.description[id] = updateRow(@)]
\* a comment references its issue: creating one for a missing issue is refused
createCommentThrows(db, args) == db.issue[args.issueID] = 0
createComment(db, args) == [db EXCEPT !.comment[args.commentID] = putRow(@)]
deleteComment(db, id) == [db EXCEPT !.comment[id] = 0]

\* --------------------------------------------------------- mutate (push.ts)
\* One run of mutate: threw = it raised; db = the tables as the transaction
\* sees them when mutate returns; written = the row writes it made in the
\* transaction; floated = the description rows whose write was started
\* without being awaited and has not run when the transaction commits.
MutateResult(threw, db, written, floated) ==
  [threw |-> threw, db |-> db, written |-> written, floated |-> floated]

\* the rows of a table that differ between two views of it
Changed(old, new) == Cardinality({i \in DOMAIN old : old[i] # new[i]})

\* updates.map(async update => ...): updateIssue is issued when the callback
\* is called; updateDescription is issued by the callback's continuation,
\* which nothing awaits, so it runs before the commit or after it.
RECURSIVE mutateUpdates(_, _)
mutateUpdates(db, updates) ==
  IF updates = <<>> THEN {MutateResult(FALSE, db, 0, {})}
  ELSE LET update == Head(updates)
           db1 == updateIssue(db, update.id)
           db2 == updateDescription(db1, update.id)
           n1 == Changed(db.issue, db1.issue)
           n2 == Changed(db1.description, db2.description)
       IN  IF ~update.descriptionChange
           THEN {MutateResult(FALSE, r.db, r.written + n1, r.floated) :
                   r \in mutateUpdates(db1, Tail(updates))}
           ELSE {MutateResult(FALSE, r.db, r.written + n1 + n2, r.floated) :
                   r \in mutateUpdates(db2, Tail(updates))}
                \cup
                {MutateResult(FALSE, r.db, r.written + n1, r.floated \cup {update.id}) :
                   r \in mutateUpdates(db1, Tail(updates))}

mutate(db, mutation) ==
  LET args == mutation.args
  IN  CASE mutation.name = "putIssue" ->
             IF ~args.valid THEN {MutateResult(TRUE, db, 0, {})}
             ELSE {MutateResult(FALSE, putDescription(putIssue(db, args.issueID), args.issueID), 2, {})}
        [] mutation.name = "updateIssues" ->
             IF ~args.valid THEN {MutateResult(TRUE, db, 0, {})}
             ELSE mutateUpdates(db, args.updates)
        [] mutation.name = "putIssueComment" ->
             IF ~args.valid \/ createCommentThrows(db, args) THEN {MutateResult(TRUE, db, 0, {})}
             ELSE {MutateResult(FALSE, createComment(db, args), 1, {})}
        [] mutation.name = "deleteIssueComment" ->
             IF ~args.valid THEN {MutateResult(TRUE, db, 0, {})}
             ELSE LET db1 == deleteComment(db, args.commentID)
                  IN  {MutateResult(FALSE, db1, Changed(db.comment, db1.comment), {})}
        [] OTHER -> {MutateResult(FALSE, db, 0, {})}

\* ------------------------------------------------ processMutation (push.ts)
\* push.ts:84
nextClientVersionOf_skips(baseClientGroup) == baseClientGroup.clientVersion + 2
nextClientVersionOf(baseClientGroup) == baseClientGroup.clientVersion + 1
\* push.ts:85
nextMutationIDOf(baseClient) == baseClient.lastMutationID + 1
\* push.ts:87
alreadyProcessed_offByOne(mutation, nextMutationID) == mutation.id < nextMutationID - 1
alreadyProcessed_never(mutation, nextMutationID) == FALSE
alreadyProcessed(mutation, nextMutationID) == mutation.id < nextMutationID
\* push.ts:93
fromTheFuture_offByOne(mutation, nextMutationID) == mutation.id > nextMutationID + 1
fromTheFuture_never(mutation, nextMutationID) == FALSE
fromTheFuture(mutation, nextMutationID) == mutation.id > nextMutationID

\* what one processMutation transaction can do: kind names the path taken,
\* result is what the call returns ("throw" = it raised), db the tables it
\* commits.
TxResult(kind, result, db, written, floated) ==
  [kind |-> kind, result |-> result, db |-> db, written |-> written, floated |-> floated]

\* push.ts:110-126, with the putClient call left out
writeVersions_noClient(db, clientGroupID, mutation, baseClientGroup, nextClientVersion, nextMutationID) ==
  putClientGroup(db, [id |-> clientGroupID,
                      cvrVersion |-> baseClientGroup.cvrVersion,
                      clientVersion |-> nextClientVersion])

\* push.ts:110-126, with a cvrVersion of zero in place of the one read
writeVersions_cvrReset(db, clientGroupID, mutation, baseClientGroup, nextClientVersion, nextMutationID) ==
  LET nextClientGroup == [id |-> clientGroupID,
                          cvrVersion |-> 0,
                          clientVersion |-> nextClientVersion]
      nextClient == [id |-> mutation.clientID,
                     clientGroupID |-> clientGroupID,
                     lastMutationID |-> nextMutationID,
                     clientVersion |-> nextClientVersion]
  IN  putClient(putClientGroup(db, nextClientGroup), nextClient)

\* push.ts:110-126
writeVersions(db, clientGroupID, mutation, baseClientGroup, nextClientVersion, nextMutationID) ==
  LET nextClientGroup == [id |-> clientGroupID,
                          cvrVersion |-> baseClientGroup.cvrVersion,
                          clientVersion |-> nextClientVersion]
      nextClient == [id |-> mutation.clientID,
                     clientGroupID |-> clientGroupID,
                     lastMutationID |-> nextMutationID,
                     clientVersion |-> nextClientVersion]
  IN  putClient(putClientGroup(db, nextClientGroup), nextClient)

\* push.ts:99 without the test of error
runsEffect_always(error) == TRUE
\* push.ts:99: mutate runs in the pass that was given no error
runsEffect(error) == error = NoError

processMutation(db, clientGroupID, mutation, error) ==
  LET baseClientGroup == getClientGroupForUpdate(db, clientGroupID)
      baseClient == getClientForUpdate(db, mutation.clientID)
      nextClientVersion == nextClientVersionOf(baseClientGroup)
      nextMutationID == nextMutationIDOf(baseClient)
  IN  IF alreadyProcessed(mutation, nextMutationID)
      THEN {TxResult("skipped", NoError, db, 0, {})}
      ELSE IF fromTheFuture(mutation, nextMutationID)
      THEN {TxResult("future", "throw", db, 0, {})}
      ELSE IF runsEffect(error)
      THEN {IF r.threw
            THEN TxResult("failed", DomainError, db, 0, {})
            ELSE TxResult("applied", NoError,
                          writeVersions(r.db, clientGroupID, mutation, baseClientGroup,
                                        nextClientVersion, nextMutationID),
                          r.written, r.floated) :
              r \in mutate(db, mutation)}
      ELSE {TxResult("versionOnly", NoError,
                     writeVersions(db, clientGroupID, mutation, baseClientGroup,
                                   nextClientVersion, nextMutationID),
                     0, {})}

\* -------------------------------------------------------------------- push
NoRequest == [clientGroupID |-> "g1", left |-> 0, unknown |-> FALSE]
\* applied = transactions that committed the mutation's effect; advanced =
\* transactions that advanced lastMutationID for it; visible = its row writes
\* in the committed tables; missing = writes it started that are not
NoHist == [applied |-> 0, advanced |-> 0, visible |-> 0, missing |-> 0]

Ended == {"done", "aborted", "rejected", "failed"}

\* Who takes part in a run: two concurrent push requests of one client,
\* each for either client group, or one push request whose mutations come
\* from two clients, for either client group.
Scopes ==
  {[procs |-> Procs, clients |-> {"c1"}, groups |-> Groups],
   [procs |-> {"p1"}, clients |-> Clients, groups |-> Groups]}

NoRetry == [n |-> 0, sent |-> <<>>]
\* no transaction is open: pass = which processMutation call of push.ts:51-54
\* opened it, held = how many of its row reads (push.ts:76-80) have returned
NoTx == [pass |-> "none", held |-> 0,
         baseClientGroup |-> [clientVersion |-> 0, cvrVersion |-> 0],
         baseClient |-> [clientGroupID |-> NoGroup, lastMutationID |-> 0, clientVersion |-> 0]]

\* a client that has not synced: checkpoint 0, nothing cached; synced = the
\* last response it applied was empty and no row was written since
NoView == [order |-> 0,
           cache |-> [issue |-> [i \in IssueIDs |-> 0],
                      description |-> [i \in IssueIDs |-> 0],
                      comment |-> [k \in CommentIDs |-> 0]],
           synced |-> FALSE]

\* no client group and no client has been seen, the tables are empty
EmptyDB ==
  [clientGroup |-> [g \in Groups |-> [clientVersion |-> 0, cvrVersion |-> 0]],
   client |-> [c \in Clients |-> [clientGroupID |-> NoGroup, lastMutationID |-> 0,
                                  clientVersion |-> 0]],
   issue |-> [i \in IssueIDs |-> 0],
   description |-> [i \in IssueIDs |-> 0],
   comment |-> [k \in CommentIDs |-> 0]]

InitIn(s) ==
  /\ clientGroup = EmptyDB.clientGroup
  /\ client = EmptyDB.client
  /\ issue = EmptyDB.issue
  /\ description = EmptyDB.description
  /\ comment = EmptyDB.comment
  /\ floating = {}
  /\ pc = [p \in Procs |-> "idle"]
  /\ req = [p \in Procs |-> NoRequest]
  /\ cur = [p \in Procs |-> NoMutation]
  /\ outcome = [p \in Procs |-> "none"]
  /\ pokes = [p \in Procs |-> 0]
  /\ hist = [c \in Clients |-> [i \in 1..MaxId |-> NoHist]]
  /\ scope = s
  /\ retry = NoRetry
  /\ tx = [p \in Procs |-> NoTx]
  /\ cvr_entry = {}
  /\ cvr_delete_entry = {}
  /\ view = NoView
  /\ asOf = [entries |-> {}, deletes |-> {}]
  /\ quiescent = FALSE
  /\ cvr = {}

Init == \E s \in Scopes : InitIn(s)

\* the transaction of one processMutation call commits (or, for "future",
\* rolls back): the tables become r.db, the writes still in flight stay in
\* flight, and the history records what was committed for the mutation
Commit(r, mutation) ==
  /\ clientGroup' = r.db.clientGroup
  /\ client' = r.db.client
  /\ issue' = r.db.issue
  /\ description' = r.db.description
  /\ comment' = r.db.comment
  /\ floating' = floating \cup
       {[clientID |-> mutation.clientID, mid |-> mutation.id, row |-> i] : i \in r.floated}
  /\ hist' =
       IF r.kind = "applied"
       THEN [hist EXCEPT ![mutation.clientID][mutation.id] =
               [applied |-> @.applied + 1, advanced |-> @.advanced + 1,
                visible |-> @.visible + r.written,
                missing |-> @.missing + Cardinality(r.floated)]]
       ELSE IF r.kind = "versionOnly"
       THEN [hist EXCEPT ![mutation.clientID][mutation.id].advanced = @ + 1]
       ELSE hist

\* push.ts:46: the request body is parsed; a body that does not parse makes
\* push raise before its loop.  Of a body that parses the request keeps the
\* client group and the number of mutations the loop has not reached yet:
\* the loop reads each mutation when it reaches it.
PushStartOf(p, g, names) ==
  /\ pc[p] = "idle"
  /\ p \in scope.procs
  /\ g \in scope.groups
  /\ req' = [req EXCEPT ![p] =
               [clientGroupID |-> g, left |-> Len(names),
                unknown |-> \E k \in 1..Len(names) : names[k] \notin mutationNames]]
  /\ pc' = [pc EXCEPT ![p] = IF pushRequestSchemaParses(names) THEN "loop" ELSE "rejected"]
  /\ UNCHANGED <<store, floating, cur, outcome, pokes, hist, scope, aux>>

PushStart(p) ==
  /\ \E g \in Groups, names \in NameSeqs(MaxBatch) : PushStartOf(p, g, names)
  /\ UNCHANGED retry

\* the for loop of push.ts:50 steps to the next mutation
nextMutation(r) == [r EXCEPT !.left = @ - 1]
loopDone(p) == req[p].left = 0
\* the names a mutation of a parsed body can carry
ParsedNames == {name \in AllNames : pushRequestSchemaParses(<<name>>)}

\* push.ts:51: processMutation(push.clientGroupID, mutation, null) for the
\* mutation at the loop's position
FirstPassOf(p, mutation, r) ==
  /\ pc[p] = "loop"
  /\ ~loopDone(p)
  /\ mutation.name \in ParsedNames
  /\ mutation.clientID \in scope.clients
  /\ r \in processMutation(DB, req[p].clientGroupID, mutation, NoError)
  /\ Commit(r, mutation)
  /\ outcome' = [outcome EXCEPT ![p] = r.kind]
  /\ pc' = [pc EXCEPT ![p] = IF r.result = "throw" THEN "aborted"
                             ELSE IF r.result = DomainError THEN "errorPass"
                             ELSE "loop"]
  /\ cur' = [cur EXCEPT ![p] = IF r.result = DomainError THEN mutation ELSE NoMutation]
  /\ req' = [req EXCEPT ![p] = IF r.result = NoError THEN nextMutation(@) ELSE @]
  /\ UNCHANGED <<pokes, scope, aux>>

FirstPass(p) ==
  \E name \in ParsedNames : \E mutation \in MutationsNamed(name) :
    \E r \in processMutation(DB, req[p].clientGroupID, mutation, NoError) :
      FirstPassOf(p, mutation, r) /\ UNCHANGED retry

\* push.ts:52-55: processMutation(push.clientGroupID, mutation, result.error);
\* what it returns is not looked at
ErrorPassOf(p, r) ==
  /\ pc[p] = "errorPass"
  /\ r \in processMutation(DB, req[p].clientGroupID, cur[p], DomainError)
  /\ Commit(r, cur[p])
  /\ outcome' = [outcome EXCEPT ![p] = r.kind]
  /\ pc' = [pc EXCEPT ![p] = IF r.result = "throw" THEN "aborted" ELSE "loop"]
  /\ cur' = [cur EXCEPT ![p] = NoMutation]
  /\ req' = [req EXCEPT ![p] = IF r.result = "throw" THEN @ ELSE nextMutation(@)]
  /\ UNCHANGED <<pokes, scope, retry, aux>>

ErrorPass(p) ==
  \E r \in processMutation(DB, req[p].clientGroupID, cur[p], DomainError) : ErrorPassOf(p, r)

\* push.ts:58, reached when the loop has run over every mutation
poke_twice(n) == n + 2
poke(n) == n + 1
Poke(p) ==
  /\ pc[p] = "loop"
  /\ loopDone(p)
  /\ pokes' = [pokes EXCEPT ![p] = poke(@)]
  /\ pc' = [pc EXCEPT ![p] = "done"]
  /\ UNCHANGED <<store, floating, req, cur, outcome, hist, scope, retry, aux>>

\* the transaction of a processMutation call fails in the storage layer:
\* it is rolled back, transact raises and push ends
StorageFailure(p) ==
  /\ \/ pc[p] = "loop" /\ ~loopDone(p)
     \/ pc[p] = "errorPass"
  /\ pc' = [pc EXCEPT ![p] = "failed"]
  /\ cur' = [cur EXCEPT ![p] = NoMutation]
  /\ outcome' = [outcome EXCEPT ![p] = IF pc[p] = "errorPass" THEN "errorPassFailure"
                                       ELSE "firstPassFailure"]
  /\ UNCHANGED <<store, floating, req, pokes, hist, scope, retry, aux>>

\* a write that mutate left in flight runs after its transaction committed
FloatingLands(f) ==
  /\ f \in floating
  /\ floating' = floating \ {f}
  /\ description' = [description EXCEPT ![f.row] = updateRow(@)]
  /\ hist' = [hist EXCEPT ![f.clientID][f.mid] =
                [@ EXCEPT !.missing = @ - 1,
                          !.visible = @ + (IF description[f.row] = 0 THEN 0 ELSE 1)]]
  /\ UNCHANGED <<clientGroup, client, issue, comment, pc, req, cur, outcome, pokes, scope, retry, aux>>

\* a write that mutate left in flight is rejected; nothing handles the rejection
FloatingLost(f) ==
  /\ f \in floating
  /\ floating' = floating \ {f}
  /\ UNCHANGED <<store, pc, req, cur, outcome, pokes, hist, scope, retry, aux>>

FloatingWrites == [clientID : Clients, mid : 1..MaxId, row : IssueIDs]

Next ==
  \/ \E p \in Procs : PushStart(p)
  \/ \E p \in Procs : FirstPass(p)
  \/ \E p \in Procs : ErrorPass(p)
  \/ \E p \in Procs : Poke(p)
  \/ \E p \in Procs : StorageFailure(p)
  \/ \E f \in FloatingWrites : FloatingLands(f)
  \/ \E f \in FloatingWrites : FloatingLost(f)

Spec == Init /\ [][Next]_vars

\* ------------------------------------------------- a request sent again
\* One request is sent by p1; when a storage failure ended it, the same
\* request is sent again by p2.  retry.n is the number of its mutations and
\* retry.sent the mutations the loops have read so far: the second run reads
\* at each position what the first run read there.
RetryScope == [procs |-> Procs, clients |-> Clients, groups |-> {"g1"}]

InitRetry == InitIn(RetryScope)

RetryFirst ==
  \E g \in Groups, names \in NameSeqs(MaxBatch) :
    /\ PushStartOf("p1", g, names)
    /\ retry' = [n |-> Len(names), sent |-> <<>>]

RetryAgain ==
  /\ pc["p1"] = "failed"
  /\ \E names \in NameSeqs(MaxBatch) :
       /\ Len(names) = retry.n
       /\ pushRequestSchemaParses(names)
       /\ PushStartOf("p2", req["p1"].clientGroupID, names)
  /\ UNCHANGED retry

RetryFirstPass(p) ==
  \E name \in ParsedNames : \E mutation \in MutationsNamed(name) :
    \E r \in processMutation(DB, req[p].clientGroupID, mutation, NoError) :
      /\ FirstPassOf(p, mutation, r)
      /\ LET k == retry.n - req[p].left + 1
         IN  IF k <= Len(retry.sent)
             THEN mutation = retry.sent[k] /\ UNCHANGED retry
             ELSE retry' = [retry EXCEPT !.sent = Append(@, mutation)]

NextRetry ==
  \/ RetryFirst
  \/ RetryAgain
  \/ \E p \in Procs : RetryFirstPass(p)
  \/ \E p \in Procs : ErrorPass(p)
  \/ \E p \in Procs : Poke(p)
  \/ \E p \in Procs : StorageFailure(p)
  \/ \E f \in FloatingWrites : FloatingLands(f)
  \/ \E f \in FloatingWrites : FloatingLost(f)

SpecRetry == InitRetry /\ [][NextRetry]_vars

\* ------------------------------------------------ transactions and row locks
\* processMutation step by step: transact opens a transaction (push.ts:68),
\* getClientGroupForUpdate and getClientForUpdate read their rows FOR UPDATE
\* (push.ts:76-80), each waiting while another transaction holds the row's
\* lock, and the rest of the callback runs on what they returned; commit or
\* rollback releases the locks.
LockScope == [procs |-> Procs, clients |-> Clients, groups |-> Groups]

\* the rows a processMutation call reads, in the order it reads them
rowReads_groupNotLocked(clientGroupID, mutation, error) ==
  <<[tbl |-> "client_group", id |-> clientGroupID, forUpdate |-> FALSE],
    [tbl |-> "client", id |-> mutation.clientID, forUpdate |-> TRUE]>>
rowReads_clientFirstOnError(clientGroupID, mutation, error) ==
  IF error = NoError
  THEN <<[tbl |-> "client_group", id |-> clientGroupID, forUpdate |-> TRUE],
         [tbl |-> "client", id |-> mutation.clientID, forUpdate |-> TRUE]>>
  ELSE <<[tbl |-> "client", id |-> mutation.clientID, forUpdate |-> TRUE],
         [tbl |-> "client_group", id |-> clientGroupID, forUpdate |-> TRUE]>>
\* push.ts:76-80
rowReads(clientGroupID, mutation, error) ==
  <<[tbl |-> "client_group", id |-> clientGroupID, forUpdate |-> TRUE],
    [tbl |-> "client", id |-> mutation.clientID, forUpdate |-> TRUE]>>

\* the error argument of the call that opened p's transaction
errorOf(p) == IF tx[p].pass = "error" THEN DomainError ELSE NoError
readsOf(p) == rowReads(req[p].clientGroupID, cur[p], errorOf(p))
rowOf(rd) == [tbl |-> rd.tbl, id |-> rd.id]
\* the row locks p's transaction holds
heldBy(p) ==
  IF tx[p].pass = "none" THEN {}
  ELSE {rowOf(readsOf(p)[k]) : k \in {j \in 1..tx[p].held : readsOf(p)[j].forUpdate}}
\* p's transaction has asked for a row lock that q's transaction holds
waitsFor(p, q) ==
  /\ p # q
  /\ tx[p].pass # "none"
  /\ tx[p].held < Len(readsOf(p))
  /\ readsOf(p)[tx[p].held + 1].forUpdate
  /\ rowOf(readsOf(p)[tx[p].held + 1]) \in heldBy(q)

\* the mutations of the lock model: putIssue, with args that pass or not.
\* Clients and client groups are interchangeable, so the first request is
\* taken to be of client c1 in client group g1; the second one is free.
LockMutations(p) ==
  {mutation \in MutationsNamed("putIssue") : p = "p1" => mutation.clientID = "c1"}
LockGroups(p) == IF p = "p1" THEN {"g1"} ELSE Groups

InitLocks == InitIn(LockScope)

LockPushStart(p) ==
  /\ \E g \in LockGroups(p), names \in NameSeqs(MaxBatch) :
       pushRequestSchemaParses(names) /\ PushStartOf(p, g, names)
  /\ UNCHANGED retry

\* push.ts:51 calls processMutation, transact opens the transaction
TxBeginFirst(p) ==
  /\ pc[p] = "loop"
  /\ ~loopDone(p)
  /\ tx[p].pass = "none"
  /\ \E mutation \in LockMutations(p) :
       /\ mutation.clientID \in scope.clients
       /\ cur' = [cur EXCEPT ![p] = mutation]
  /\ tx' = [tx EXCEPT ![p] = [NoTx EXCEPT !.pass = "first"]]
  /\ UNCHANGED <<store, floating, pc, req, outcome, pokes, hist, scope, retry, cvrVars>>

\* push.ts:54 calls processMutation with the error
TxBeginError(p) ==
  /\ pc[p] = "errorPass"
  /\ tx[p].pass = "none"
  /\ tx' = [tx EXCEPT ![p] = [NoTx EXCEPT !.pass = "error"]]
  /\ UNCHANGED <<store, floating, pc, req, cur, outcome, pokes, hist, scope, retry, cvrVars>>

\* push.ts:76-80: the next row read returns, with the row's lock when it is
\* read FOR UPDATE
TxRead(p) ==
  /\ tx[p].pass # "none"
  /\ tx[p].held < Len(readsOf(p))
  /\ \A q \in Procs : ~waitsFor(p, q)
  /\ LET rd == readsOf(p)[tx[p].held + 1]
     IN  tx' = [tx EXCEPT ![p] =
                  IF rd.tbl = "client_group"
                  THEN [@ EXCEPT !.held = @ + 1,
                                 !.baseClientGroup = getClientGroupForUpdate(DB, rd.id)]
                  ELSE [@ EXCEPT !.held = @ + 1,
                                 !.baseClient = getClientForUpdate(DB, rd.id)]]
  /\ UNCHANGED <<store, floating, pc, req, cur, outcome, pokes, hist, scope, retry, cvrVars>>

\* the tables as p's transaction knows them: the rows it read as it read them
txView(p) ==
  [DB EXCEPT !.clientGroup[req[p].clientGroupID] = tx[p].baseClientGroup,
             !.client[cur[p].clientID] = tx[p].baseClient]

\* push.ts:84-130: the rest of the callback, and the transaction ends
TxCommitOf(p, r) ==
  /\ tx[p].pass # "none"
  /\ tx[p].held = Len(readsOf(p))
  /\ r \in processMutation(txView(p), req[p].clientGroupID, cur[p], errorOf(p))
  /\ Commit([r EXCEPT !.db = IF r.kind \in {"applied", "versionOnly"} THEN r.db ELSE DB],
            cur[p])
  /\ outcome' = [outcome EXCEPT ![p] = r.kind]
  /\ pc' = [pc EXCEPT ![p] = IF r.result = "throw" THEN "aborted"
                             ELSE IF r.result = DomainError /\ tx[p].pass = "first"
                             THEN "errorPass"
                             ELSE "loop"]
  /\ cur' = [cur EXCEPT ![p] = IF r.result = DomainError /\ tx[p].pass = "first"
                               THEN @ ELSE NoMutation]
  /\ req' = [req EXCEPT ![p] = IF r.result = "throw" \/
                                  (r.result = DomainError /\ tx[p].pass = "first")
                               THEN @ ELSE nextMutation(@)]
  /\ tx' = [tx EXCEPT ![p] = NoTx]
  /\ UNCHANGED <<pokes, scope, retry, cvrVars>>

TxCommit(p) ==
  \E r \in processMutation(txView(p), req[p].clientGroupID, cur[p], errorOf(p)) :
    TxCommitOf(p, r)

NextLocks ==
  \/ \E p \in Procs : LockPushStart(p)
  \/ \E p \in Procs : TxBeginFirst(p)
  \/ \E p \in Procs : TxBeginError(p)
  \/ \E p \in Procs : TxRead(p)
  \/ \E p \in Procs : TxCommit(p)
  \/ \E p \in Procs : Poke(p)

SpecLocks == InitLocks /\ [][NextLocks]_vars

\* the row reads and the commit of an open transaction are not held back
\* for ever when they can go on
SpecLocksFair ==
  SpecLocks /\ \A p \in Procs : WF_vars(TxRead(p)) /\ WF_vars(TxCommit(p))

\* ---- one run of push over a request, start to end, as a function
\* a world: the tables and the writes in flight
World(db, fl) == [db |-> db, floating |-> fl]

\* the writes in flight of the set L run
RECURSIVE Land(_, _)
Land(db, L) ==
  IF L = {} THEN db
  ELSE LET f == CHOOSE x \in L : TRUE
       IN  Land(updateDescription(db, f.row), L \ {f})

\* any of the writes in flight run or are rejected
Resolve(w) ==
  {World(Land(w.db, L), w.floating \ (L \cup D)) :
     L \in SUBSET w.floating, D \in SUBSET w.floating}

\* push.ts:51-55 for one mutation: where the loop can be after it
StepOutcomes(w, g, mutation) ==
  UNION {
    IF r.result = "throw" THEN {[world |-> w, ended |-> "aborted"]}
    ELSE IF r.result = DomainError
    THEN UNION {{[world |-> World(r2.db, w2.floating),
                  ended |-> IF r2.result = "throw" THEN "aborted" ELSE "loop"] :
                   r2 \in processMutation(w2.db, g, mutation, DomainError)} :
                 w2 \in Resolve(w)}
    ELSE {[world |-> World(r.db, w.floating \cup
                             {[clientID |-> mutation.clientID, mid |-> mutation.id,
                               row |-> i] : i \in r.floated}),
           ended |-> "loop"]} :
    r \in processMutation(w.db, g, mutation, NoError)}

\* push.ts:50-58 over the mutations of a request, from the worlds W
RECURSIVE RunOutcomes(_, _, _)
RunOutcomes(W, g, mutations) ==
  LET now == UNION {Resolve(w) : w \in W}
  IN  IF mutations = <<>>
      THEN {[world |-> w, ended |-> "done"] : w \in now}
      ELSE LET after == UNION {StepOutcomes(w, g, Head(mutations)) : w \in now}
               aborted == {o \in after : o.ended = "aborted"}
           IN  UNION {{[world |-> w2, ended |-> "aborted"] : w2 \in Resolve(o.world)} :
                        o \in aborted}
               \cup RunOutcomes({o.world : o \in after \ aborted}, g, Tail(mutations))

\* ------------------------------------------------ CVR store (pull/cvr.ts)
\* cvr.ts:90-94
Tables == {"issue", "description", "comment"}
TableOrdinal(table) ==
  CASE table = "issue" -> 1
    [] table = "description" -> 2
    [] table = "comment" -> 3

\* SELECT * FROM "${table}": the rows of a table, each with id and rowversion
tableRows(db, table) ==
  {[id |-> i, rowversion |-> db[table][i]] : i \in {j \in DOMAIN db[table] : db[table][j] # 0}}

\* LIMIT $4 with one row less
Limited_oneLess(S, n) ==
  {R \in SUBSET S : Cardinality(R) = IF n - 1 < Cardinality(S) THEN n - 1 ELSE Cardinality(S)}
\* LIMIT $4 (cvr.ts:84, 119) without ORDER BY: any n of the rows, all of them
\* when there are at most n
Limited(S, n) ==
  {R \in SUBSET S : Cardinality(R) = IF n < Cardinality(S) THEN n ELSE Cardinality(S)}

\* cvr.ts:75-84 without "order" <= $2
findUnsentItems_anyOrder(db, entries, table, clientGroupID, order, limit) ==
  LET sent == {<<e.row_id, e.row_version>> :
                 e \in {x \in entries : /\ x.client_group_id = clientGroupID
                                         /\ x.tbl = TableOrdinal(table)}}
  IN  Limited({t \in tableRows(db, table) : <<t.id, t.rowversion>> \notin sent}, limit)
\* cvr.ts:60-88: the possible results of the query
findUnsentItems(db, entries, table, clientGroupID, order, limit) ==
  LET sent == {<<e.row_id, e.row_version>> :
                 e \in {x \in entries : /\ x.client_group_id = clientGroupID
                                         /\ x.order <= order
                                         /\ x.tbl = TableOrdinal(table)}}
  IN  Limited({t \in tableRows(db, table) : <<t.id, t.rowversion>> \notin sent}, limit)

\* cvr.ts:109-119 without the second NOT EXISTS
findDeletions_noTombstone(db, entries, deletes, table, clientGroupID, order, limit) ==
  Limited({e.row_id :
             e \in {x \in entries :
                      /\ x.tbl = TableOrdinal(table)
                      /\ db[table][x.row_id] = 0
                      /\ x.client_group_id = clientGroupID
                      /\ x.order <= order}},
          limit)
\* cvr.ts:96-122: the possible results of the query
findDeletions(db, entries, deletes, table, clientGroupID, order, limit) ==
  Limited({e.row_id :
             e \in {x \in entries :
                      /\ x.tbl = TableOrdinal(table)
                      /\ db[table][x.row_id] = 0
                      /\ x.client_group_id = clientGroupID
                      /\ x.order <= order
                      /\ ~\E d \in deletes :
                            /\ d.tbl = TableOrdinal(table)
                            /\ d.row_id = x.row_id
                            /\ d.client_group_id = clientGroupID
                            /\ d.order <= order}},
          limit)

\* cvr.ts:130-137 without "client_group_id" = $1
dropCVREntries_anyGroup(entries, deletes, clientGroupID, order) ==
  [entries |-> {e \in entries : ~(e.order > order)},
   deletes |-> {d \in deletes : ~(d.order > order)}]
\* cvr.ts:124-139: both tables after the two DELETEs
dropCVREntries(entries, deletes, clientGroupID, order) ==
  [entries |-> {e \in entries : ~(e.client_group_id = clientGroupID /\ e.order > order)},
   deletes |-> {d \in deletes : ~(d.client_group_id = clientGroupID /\ d.order > order)}]

\* the cvr_entry rows the INSERT of cvr.ts:170-184 offers
updateRows(table, clientGroupID, order, updates) ==
  {[client_group_id |-> clientGroupID, order |-> order, tbl |-> TableOrdinal(table),
    row_id |-> u.id, row_version |-> u.rowversion] : u \in updates}
\* ON CONFLICT without "tbl"
sameKey_anyTable(e, f) ==
  e.client_group_id = f.client_group_id /\ e.row_id = f.row_id
sameKey(e, f) ==
  e.client_group_id = f.client_group_id /\ e.tbl = f.tbl /\ e.row_id = f.row_id

\* cvr.ts:170-184 without the INSERT
recordUpdates_notRecorded(entries, table, clientGroupID, order, updates) == entries
\* cvr.ts:170-184 without ON CONFLICT ... DO UPDATE
recordUpdates_insertOnly(entries, table, clientGroupID, order, updates) ==
  entries \cup updateRows(table, clientGroupID, order, updates)
\* cvr.ts:141-185: cvr_entry after the upsert
recordUpdates(entries, table, clientGroupID, order, updates) ==
  IF updates = {} THEN entries
  ELSE LET new == updateRows(table, clientGroupID, order, updates)
       IN  {e \in entries : ~\E f \in new : sameKey(e, f)} \cup new

\* cvr.ts:199-229: cvr_delete_entry after the INSERT
recordDeletes(deletes, table, clientGroupID, order, ids) ==
  IF ids = {} THEN deletes
  ELSE deletes \cup {[client_group_id |-> clientGroupID, order |-> order,
                      tbl |-> TableOrdinal(table), row_id |-> i] : i \in ids}

\* ----------------------------------------------------- pull (the sync)
\* The pull handler is not part of the sources; a sync is modelled on its
\* contract: the client reports its checkpoint as baseOrder; in one
\* transaction the server drops the client group's entries above baseOrder,
\* computes puts and deletes of every table against baseOrder, and records
\* them at newOrder = baseOrder + 1; the client applies the response to its
\* cache and takes newOrder as its checkpoint, unless the response is lost.
CvrScope == [procs |-> {}, clients |-> {"c1"}, groups |-> {"g1"}]

\* the results a diff of all tables can return
diff(db, entries, deletes, clientGroupID, baseOrder, limit) ==
  {[puts |-> [issue |-> pi, description |-> pd, comment |-> pk],
    deletes |-> [issue |-> di, description |-> dd, comment |-> dk]] :
     pi \in findUnsentItems(db, entries, "issue", clientGroupID, baseOrder, limit),
     pd \in findUnsentItems(db, entries, "description", clientGroupID, baseOrder, limit),
     pk \in findUnsentItems(db, entries, "comment", clientGroupID, baseOrder, limit),
     di \in findDeletions(db, entries, deletes, "issue", clientGroupID, baseOrder, limit),
     dd \in findDeletions(db, entries, deletes, "description", clientGroupID, baseOrder, limit),
     dk \in findDeletions(db, entries, deletes, "comment", clientGroupID, baseOrder, limit)}

emptyDiff(d) == \A t \in Tables : d.puts[t] = {} /\ d.deletes[t] = {}

\* the CVR tables after a diff was recorded at newOrder
recordDiff(entries, deletes, clientGroupID, newOrder, d) ==
  [entries |->
     recordUpdates(
       recordUpdates(
         recordUpdates(entries, "issue", clientGroupID, newOrder, d.puts["issue"]),
         "description", clientGroupID, newOrder, d.puts["description"]),
       "comment", clientGroupID, newOrder, d.puts["comment"]),
   deletes |->
     recordDeletes(
       recordDeletes(
         recordDeletes(deletes, "issue", clientGroupID, newOrder, d.deletes["issue"]),
         "description", clientGroupID, newOrder, d.deletes["description"]),
       "comment", clientGroupID, newOrder, d.deletes["comment"])]

\* the client's cache after it applied the puts and the deletes of a response
applyDiff(cache, d) ==
  [t \in Tables |->
     [i \in DOMAIN cache[t] |->
        IF i \in d.deletes[t] THEN 0
        ELSE IF \E u \in d.puts[t] : u.id = i
        THEN (CHOOSE u \in d.puts[t] : u.id = i).rowversion
        ELSE cache[t][i]]]

\* the mutations whose effect the row store of the sync model commits
CvrMutations ==
  {mutation \in UNION {MutationsNamed(name) : name \in mutationNames} :
     mutation.id = 1 /\ mutation.clientID = "c1" /\ mutation.args.valid}

InitCVR == InitIn(CvrScope)

\* a push commits the effect of a mutation on the row store
RowStoreWrite ==
  /\ \E mutation \in CvrMutations : \E r \in mutate(DB, mutation) :
       /\ ~r.threw
       /\ r.floated = {}
       /\ <<r.db.issue, r.db.description, r.db.comment>> # rowStore
       /\ \A t \in Tables : \A i \in DOMAIN r.db[t] : r.db[t][i] <= MaxVersion
       /\ issue' = r.db.issue
       /\ description' = r.db.description
       /\ comment' = r.db.comment
  /\ view' = [view EXCEPT !.synced = FALSE]
  /\ UNCHANGED <<clientGroup, client, floating, pc, req, cur, outcome, pokes, hist,
                 scope, retry, tx, cvr_entry, cvr_delete_entry, asOf, quiescent, cvr>>

\* one sync of the client of client group g, at whatever order it has reached
SyncAt(g, limit, delivered) ==
  /\ g \in scope.groups
  /\ LET baseOrder == view.order
         newOrder == baseOrder + 1
         kept == dropCVREntries(cvr_entry, cvr_delete_entry, g, baseOrder)
     IN  \E d \in diff(DB, kept.entries, kept.deletes, g, baseOrder, limit) :
           LET rec == recordDiff(kept.entries, kept.deletes, g, newOrder, d)
           IN  /\ cvr_entry' = rec.entries
               /\ cvr_delete_entry' = rec.deletes
               /\ asOf' = IF delivered THEN rec ELSE asOf
               /\ view' = IF delivered
                          THEN [order |-> newOrder, cache |-> applyDiff(view.cache, d),
                                synced |-> emptyDiff(d)]
                          ELSE view
  /\ UNCHANGED <<store, floating, pc, req, cur, outcome, pokes, hist, scope, retry, tx,
                 quiescent, cvr>>

\* one sync of the client of client group g
Sync(g, limit, delivered) ==
  /\ view.order < MaxOrder
  /\ SyncAt(g, limit, delivered)

SyncDelivered == \E g \in Groups, limit \in 1..MaxLimit : Sync(g, limit, TRUE)
SyncLost == \E g \in Groups, limit \in 1..MaxLimit : Sync(g, limit, FALSE)

NextCVR ==
  \/ RowStoreWrite
  \/ SyncDelivered
  \/ SyncLost

SpecCVR == InitCVR /\ [][NextCVR]_vars

\* the syncs of a client that receives every response
NextDelivered ==
  \/ RowStoreWrite
  \/ SyncDelivered

SpecDelivered == InitCVR /\ [][NextDelivered]_vars

\* two client groups sync against one row store; their clients are not
\* followed: a client presents a base order, and the server drops, diffs and
\* records for its group
GroupsScope == [procs |-> {}, clients |-> {}, groups |-> {}]
InitGroups == InitIn(GroupsScope)

GroupSync(g, baseOrder, limit) ==
  /\ LET kept == dropCVREntries(cvr_entry, cvr_delete_entry, g, baseOrder)
     IN  \E d \in diff(DB, kept.entries, kept.deletes, g, baseOrder, limit) :
           LET rec == recordDiff(kept.entries, kept.deletes, g, baseOrder + 1, d)
           IN  /\ cvr_entry' = rec.entries
               /\ cvr_delete_entry' = rec.deletes
  /\ UNCHANGED <<store, floating, pc, req, cur, outcome, pokes, hist, scope, retry, tx,
                 view, asOf, quiescent, cvr>>

\* the clients of g1 sync for the first time or from their first checkpoint
FirstGroupSync ==
  \E baseOrder \in 0..MaxBase, limit \in Limits : GroupSync("g1", baseOrder, limit)
\* the clients of g2 sync for the first time
SecondGroupSync ==
  \E limit \in Limits : GroupSync("g2", 0, limit)

NextGroups ==
  \/ RowStoreWrite
  \/ FirstGroupSync
  \/ SecondGroupSync

SpecGroups == InitGroups /\ [][NextGroups]_vars

\* paging: rows are written and synced until the pushes stop; from then on
\* the client pulls, each pull at the order the one before recorded, until a
\* pull returns neither puts nor deletes
PagingWrite == ~quiescent /\ RowStoreWrite
PagingSync == ~quiescent /\ SyncDelivered
Quiesce ==
  /\ ~quiescent
  /\ quiescent' = TRUE
  /\ UNCHANGED <<store, floating, pc, req, cur, outcome, pokes, hist, scope, retry, tx,
                 cvr_entry, cvr_delete_entry, view, asOf, cvr>>
PagingRound ==
  /\ quiescent
  /\ ~view.synced
  /\ view.order < MaxOrder + MaxRounds
  /\ \E g \in Groups, limit \in Limits : SyncAt(g, limit, TRUE)

NextPaging ==
  \/ PagingWrite
  \/ PagingSync
  \/ Quiesce
  \/ PagingRound

SpecPaging == InitCVR /\ [][NextPaging]_vars /\ WF_vars(PagingRound)

\* ------------------------------------------- pushes between the pulls
\* The push requests of Spec run while the client of the client group pulls.
\* A pull is one transaction: it reads the client group row, diffs and
\* records as a sync does, stores the cvr header of the new order with the
\* client version it read, and writes the new order to the group's
\* cvrVersion.  Each push transaction holds the lock of the group row from
\* its first read to its commit, so a pull commits before or after it.
PullScope == [procs |-> Procs, clients |-> {"c1"}, groups |-> {"g1"}]
InitPull == InitIn(PullScope)

\* cvr.ts:10-27: the header of a client group at an order, if there is one
getCVR(rows, clientGroupID, order) ==
  {[clientGroupID |-> r.client_group_id, order |-> r.order,
    clientVersion |-> r.client_version] :
     r \in {x \in rows : x.client_group_id = clientGroupID /\ x.order = order}}

\* cvr.ts:29-40: the cvr table after the upsert
putCVR(rows, c) ==
  {r \in rows : ~(r.client_group_id = c.clientGroupID /\ r.order = c.order)}
    \cup {[client_group_id |-> c.clientGroupID, order |-> c.order,
            client_version |-> c.clientVersion]}

Pull(g, limit) ==
  /\ g \in scope.groups
  /\ view.order < MaxOrder
  /\ LET baseClientGroup == getClientGroupForUpdate(DB, g)
         baseOrder == view.order
         newOrder == baseOrder + 1
         kept == dropCVREntries(cvr_entry, cvr_delete_entry, g, baseOrder)
     IN  \E d \in diff(DB, kept.entries, kept.deletes, g, baseOrder, limit) :
           LET rec == recordDiff(kept.entries, kept.deletes, g, newOrder, d)
           IN  /\ cvr_entry' = rec.entries
               /\ cvr_delete_entry' = rec.deletes
               /\ asOf' = rec
               /\ cvr' = putCVR(cvr, [clientGroupID |-> g, order |-> newOrder,
                                      clientVersion |-> baseClientGroup.clientVersion])
               /\ clientGroup' =
                    putClientGroup(DB, [id |-> g,
                                        clientVersion |-> baseClientGroup.clientVersion,
                                        cvrVersion |-> newOrder]).clientGroup
               /\ view' = [order |-> newOrder, cache |-> applyDiff(view.cache, d),
                           synced |-> emptyDiff(d)]
  /\ UNCHANGED <<client, issue, description, comment, floating, pc, req, cur, outcome,
                 pokes, hist, scope, retry, tx, quiescent>>

Pulls == \E g \in Groups, limit \in Limits : Pull(g, limit)

NextPull ==
  \/ \E p \in Procs : PushStart(p)
  \/ \E p \in Procs : FirstPass(p)
  \/ \E p \in Procs : ErrorPass(p)
  \/ \E p \in Procs : Poke(p)
  \/ \E p \in Procs : StorageFailure(p)
  \/ \E f \in FloatingWrites : FloatingLands(f)
  \/ \E f \in FloatingWrites : FloatingLost(f)
  \/ Pulls

SpecPull == InitPull /\ [][NextPull]_vars

\* ------------------------------------------------------------- properties
lastMutationID(c) == client[c].lastMutationID
clientVersion(g) == clientGroup[g].clientVersion
AnyMutation == UNION {MutationsNamed(name) : name \in AllNames}

\* push request p takes a processMutation step for `mutation` (such a step
\* moves p on in its loop or out of it)
FirstPassStep(p, mutation) ==
  /\ pc[p] = "loop"
  /\ pc'[p] # "loop" \/ req'[p] # req[p]
  /\ \E r \in processMutation(DB, req[p].clientGroupID, mutation, NoError) :
       FirstPassOf(p, mutation, r)
ErrorPassStep(p) ==
  /\ pc[p] = "errorPass"
  /\ pc'[p] # "errorPass"
  /\ \E r \in processMutation(DB, req[p].clientGroupID, cur[p], DomainError) :
       ErrorPassOf(p, r)

\* C1: for every client and mutation id, over every interleaving of the push
\* requests, the mutation's effect is committed by at most one transaction
\* and lastMutationID is advanced for that id by exactly one transaction
\* once the client has passed it, never by two.
ExactlyOnce ==
  \A c \in Clients, i \in 1..MaxId :
    /\ hist[c][i].applied <= 1
    /\ hist[c][i].advanced <= 1
    /\ hist[c][i].applied <= hist[c][i].advanced
    /\ (lastMutationID(c) >= i) <=> (hist[c][i].advanced = 1)

\* C1 witness: a request sits between the failed first pass and the
\* version-only pass of a mutation while a concurrent request has committed
\* a mutation of the same client and id
ExactlyOnceWitness ==
  /\ pc["p1"] = "errorPass"
  /\ cur["p1"].clientID = "c1"
  /\ cur["p1"].id = 1
  /\ hist["c1"][1].applied = 1
  /\ pc["p2"] = "loop"

\* C2: a processMutation step changes stored state only for a mutation whose
\* id is lastMutationID + 1; for a smaller id it changes nothing and the loop
\* goes on; for a larger id it changes nothing and push ends with the error.
AcceptanceRule ==
  [][\A p \in Procs : \A mutation \in AnyMutation :
       FirstPassStep(p, mutation) =>
         LET next == lastMutationID(mutation.clientID) + 1
         IN  /\ (mutation.id = next) =>
                  /\ pc'[p] \in {"loop", "errorPass"}
                  /\ (pc'[p] = "loop") =>
                       /\ client'[mutation.clientID].lastMutationID = next
                       /\ clientGroup'[req[p].clientGroupID].clientVersion =
                            clientVersion(req[p].clientGroupID) + 1
                       /\ hist'[mutation.clientID][mutation.id].applied =
                            hist[mutation.clientID][mutation.id].applied + 1
             /\ (mutation.id < next) =>
                  /\ pc'[p] = "loop"
                  /\ req'[p].left = req[p].left - 1
                  /\ UNCHANGED <<store, hist>>
             /\ (mutation.id > next) =>
                  /\ pc'[p] = "aborted"
                  /\ UNCHANGED <<store, hist>>]_vars

\* C2 witness: client c1 sent 1, then 2, then 1 again: accepted, accepted,
\* and the last one skipped
AcceptanceRuleWitness ==
  /\ scope.clients = {"c1"}
  /\ lastMutationID("c1") = 2
  /\ hist["c1"][1].applied = 1
  /\ hist["c1"][2].applied = 1
  /\ outcome["p2"] = "skipped"
  /\ pc["p2"] = "done"

\* C3: a client and a client group never seen have zero counters, and every
\* step leaves each lastMutationID and each clientVersion unchanged or one
\* higher.
CountersStepByOne ==
  [][/\ \A c \in Clients :
          /\ (client[c].clientGroupID = NoGroup) =>
               (lastMutationID(c) = 0 /\ client[c].clientVersion = 0)
          /\ client'[c].lastMutationID \in {lastMutationID(c), lastMutationID(c) + 1}
     /\ \A g \in Groups :
          clientGroup'[g].clientVersion \in {clientVersion(g), clientVersion(g) + 1}]_vars

\* C3 witness: both counters have gone 0, 1, 2
CountersStepByOneWitness ==
  /\ lastMutationID("c1") = 2
  /\ clientVersion("g1") = 2

\* C4: the first pass of a mutation whose mutate raises commits nothing and
\* leaves the request in its loop; the version-only pass that follows, for
\* the expected id, advances lastMutationID and clientVersion by exactly 1,
\* writes no row, and the loop goes on to the next mutation.
ForwardProgress ==
  [][\A p \in Procs :
       /\ \A mutation \in AnyMutation :
            (pc'[p] = "errorPass" /\ FirstPassStep(p, mutation)) =>
              /\ UNCHANGED <<store, hist>>
              /\ cur'[p] = mutation
       /\ ErrorPassStep(p) =>
            LET c == cur[p].clientID
                g == req[p].clientGroupID
            IN  /\ pc'[p] = "loop"
                /\ req'[p].left = req[p].left - 1
                /\ client'[c].lastMutationID >= cur[p].id
                /\ UNCHANGED rowStore
                /\ (cur[p].id = lastMutationID(c) + 1) =>
                     /\ client'[c].lastMutationID = lastMutationID(c) + 1
                     /\ clientGroup'[g].clientVersion = clientVersion(g) + 1]_vars

\* C4 witness: mutation 1 failed and still took its slot, and mutation 2 of
\* the same request was applied after it
ForwardProgressWitness ==
  /\ scope.procs = {"p1"}
  /\ pc["p1"] = "done"
  /\ hist["c1"][1].advanced = 1
  /\ hist["c1"][1].applied = 0
  /\ hist["c1"][2].applied = 1

\* C5: for every mutation, in every committed state, either all the row
\* writes it started and both of its version updates are visible, or none of
\* its row writes is.
MutationAtomic ==
  \A c \in Clients, i \in 1..MaxId :
    \/ hist[c][i].visible = 0
    \/ /\ hist[c][i].missing = 0
       /\ hist[c][i].advanced >= 1
       /\ lastMutationID(c) >= i

FutureAbort ==
  [][\A p \in Procs :
       /\ \A mutation \in AnyMutation :
            (mutation.id > lastMutationID(mutation.clientID) + 1 /\ FirstPassStep(p, mutation)) =>
              /\ pc'[p] = "aborted"
              /\ req'[p] = req[p]
              /\ UNCHANGED <<store, floating, hist, pokes>>
       /\ (pc[p] = "aborted") =>
            /\ pc'[p] = "aborted"
            /\ req'[p] = req[p]
            /\ outcome'[p] = outcome[p]
            /\ pokes'[p] = pokes[p]
            /\ \A c \in Clients, i \in 1..MaxId :
                 /\ hist'[c][i].applied >= hist[c][i].applied
                 /\ hist'[c][i].advanced >= hist[c][i].advanced
                 /\ client'[c].lastMutationID >= lastMutationID(c)]_vars

\* C7 witness: the first mutation of a request was committed, the second one
\* was from the future, and the request ended there
FutureAbortWitness ==
  /\ scope.procs = {"p1"}
  /\ pc["p1"] = "aborted"
  /\ req["p1"].left = 1
  /\ hist["c1"][1].applied = 1
  /\ lastMutationID("c1") = 1
  /\ lastMutationID("c2") = 0

\* C8: a processMutation step, of either pass, for a mutation whose id is at
\* most the client's lastMutationID changes no stored value.
StaleIsNoOp ==
  [][\A p \in Procs :
       /\ \A mutation \in AnyMutation :
            (mutation.id <= lastMutationID(mutation.clientID) /\ FirstPassStep(p, mutation)) =>
              UNCHANGED <<store, floating, hist>>
       /\ (cur[p].id <= lastMutationID(cur[p].clientID) /\ ErrorPassStep(p)) =>
            UNCHANGED <<store, floating, hist>>]_vars

\* C8 witness: mutation 1 of client c1 was submitted twice: applied the first
\* time, skipped the second
StaleIsNoOpWitness ==
  /\ outcome["p2"] = "skipped"
  /\ pc["p1"] = "done"
  /\ hist["c1"][1].applied = 1
  /\ lastMutationID("c1") = 1

\* C10 as claimed: every push request that ran its loop, to its end or to a
\* fatal error, has signalled the poke backend exactly once
PokedOncePerPush ==
  \A p \in Procs : pc[p] \in {"done", "aborted"} => pokes[p] = 1

\* C10 as amended: a push request pokes exactly once when its loop has run
\* over all of its mutations, after the last of them; a push request that
\* ends early (fatal error, storage failure, rejected body) does not poke.
PokedOnceWhenCompleted ==
  \A p \in Procs :
    /\ (pc[p] = "done") => (pokes[p] = 1 /\ req[p].left = 0)
    /\ (pc[p] # "done") => pokes[p] = 0

\* C10 witness: requests of zero and of two mutations have both poked once
PokedOnceWitness ==
  /\ pc["p1"] = "done"
  /\ pc["p2"] = "done"
  /\ outcome["p1"] = "none"
  /\ lastMutationID("c1") = 2
  /\ pokes = [p \in Procs |-> 1]

\* C9: when a request that a storage failure ended, after any number of
\* its transactions had committed, is sent again, the second run ends with
\* the tables (and the writes in flight) that one run of the request from
\* the start can end with, and no mutation's effect has been committed twice.
RetrySafe ==
  /\ \A c \in Clients, i \in 1..MaxId : hist[c][i].applied <= 1
  /\ \A p \in Procs :
       pc[p] \in {"done", "aborted"} =>
         [world |-> World(DB, floating), ended |-> pc[p]]
           \in RunOutcomes({World(EmptyDB, {})}, req[p].clientGroupID, retry.sent)

\* C9 witness: the first run failed between the two passes of its first
\* mutation, whose mutate raised; the second run gave that mutation its
\* slot and applied the second one
RetrySafeWitness ==
  /\ pc["p1"] = "failed"
  /\ req["p1"].left = 2
  /\ outcome["p1"] = "errorPassFailure"
  /\ pc["p2"] = "done"
  /\ hist["c1"][1].applied = 0
  /\ hist["c1"][1].advanced = 1
  /\ hist["c1"][2].applied = 1

\* C11: within one push request the transaction of a mutation begins only
\* when the one before it has committed, both passes, and with every row
\* write of the mutations before it in the tables.
InBatchOrder ==
  [][\A p \in Procs : \A mutation \in AnyMutation :
       (scope.procs = {p} /\ FirstPassStep(p, mutation)) =>
         /\ cur[p] = NoMutation
         /\ \A c \in Clients, i \in 1..MaxId : hist[c][i].missing = 0]_vars

\* p's transaction ends
TxCommitStep(p) == tx[p].pass # "none" /\ tx'[p].pass = "none"

\* a transaction did what processMutation does when it runs alone on the
\* tables as they are when it commits
CommitsAsAlone(p) ==
  \E r \in processMutation(DB, req[p].clientGroupID, cur[p], errorOf(p)) :
    /\ outcome'[p] = r.kind
    /\ IF r.kind \in {"applied", "versionOnly"}
       THEN /\ clientGroup' = r.db.clientGroup
            /\ client' = r.db.client
            /\ rowStore' = <<r.db.issue, r.db.description, r.db.comment>>
       ELSE UNCHANGED store

WaitCycle ==
  \E S \in SUBSET Procs :
    /\ S # {}
    /\ \A p \in S : \E q \in S : waitsFor(p, q)

recordedAt(table, g, b, id, rowversion) ==
  \E e \in cvr_entry :
    /\ e.client_group_id = g
    /\ e.tbl = TableOrdinal(table)
    /\ e.order <= b
    /\ e.row_id = id
    /\ e.row_version = rowversion

\* the rows of the table whose current pair is not recorded for g at or before b
unsent(table, g, b) ==
  {[id |-> i, rowversion |-> DB[table][i]] :
     i \in {j \in DOMAIN DB[table] :
              DB[table][j] # 0 /\ ~recordedAt(table, g, b, j, DB[table][j])}}

\* C14: for a table, a client group g, a base order b and a limit L, every
\* result of findUnsentItems holds only rows currently in the table whose
\* (id, rowversion) pair is not among the cvr_entry rows of g for that table
\* with order <= b, holds at most L rows, and holds all such rows when there
\* are at most L; a row whose current pair is recorded for g at an order <= b
\* is never returned.
PutsDefinition ==
  \A table \in Tables, g \in Groups, b \in Orders, L \in Limits :
    LET results == findUnsentItems(DB, cvr_entry, table, g, b, L)
    IN  /\ results # {}
        /\ \A R \in results :
             /\ \A r \in R :
                  /\ r.id \in DOMAIN DB[table]
                  /\ r.rowversion # 0
                  /\ DB[table][r.id] = r.rowversion
                  /\ ~recordedAt(table, g, b, r.id, r.rowversion)
             /\ Cardinality(R) <= L
             /\ Cardinality(unsent(table, g, b)) <= L => R = unsent(table, g, b)

\* one row of a table is recorded at or before b at its current version, and
\* another only above b, so that the diff against b returns the second alone
PutsDefinitionWitness ==
  \E table \in Tables, b \in Orders : \E i, j \in DOMAIN DB[table] :
    /\ i # j
    /\ DB[table][i] # 0
    /\ DB[table][j] # 0
    /\ recordedAt(table, "g1", b, i, DB[table][i])
    /\ recordedAt(table, "g1", MaxOrder, j, DB[table][j])
    /\ ~recordedAt(table, "g1", b, j, DB[table][j])
    /\ findUnsentItems(DB, cvr_entry, table, "g1", b, MaxLimit)
         = {{[id |-> j, rowversion |-> DB[table][j]]}}

\* the row ids of the table that g was sent at or before b, that are no longer
\* in the table, and whose deletion g was not sent at or before b
deleted(table, g, b) ==
  {i \in DOMAIN DB[table] :
     /\ \E e \in cvr_entry :
          /\ e.client_group_id = g
          /\ e.tbl = TableOrdinal(table)
          /\ e.row_id = i
          /\ e.order <= b
     /\ DB[table][i] = 0
     /\ ~\E d \in cvr_delete_entry :
          /\ d.client_group_id = g
          /\ d.tbl = TableOrdinal(table)
          /\ d.row_id = i
          /\ d.order <= b}

\* C15: for a table, a client group g and a base order b, findDeletions
\* returns exactly (up to the limit) the row ids that have a cvr_entry for g
\* and that table with order <= b, have no row with that id in the table, and
\* have no cvr_delete_entry for g, that table and that id with order <= b.
DeletesDefinition ==
  \A table \in Tables, g \in Groups, b \in Orders, L \in Limits :
    LET results == findDeletions(DB, cvr_entry, cvr_delete_entry, table, g, b, L)
        all == deleted(table, g, b)
    IN  /\ results # {}
        /\ \A R \in results :
             /\ R \subseteq all
             /\ Cardinality(R) <= L
             /\ Cardinality(all) <= L => R = all

\* for one table and base order, one deleted row is returned, and another
\* deleted row is not, because its deletion was recorded at or before b
DeletesDefinitionWitness ==
  \E table \in Tables, b \in Orders : \E i, j \in DOMAIN DB[table] :
    /\ i # j
    /\ DB[table][i] = 0
    /\ DB[table][j] = 0
    /\ \E d \in cvr_delete_entry :
         d.client_group_id = "g1" /\ d.tbl = TableOrdinal(table) /\ d.row_id = j /\ d.order <= b
    /\ \E e \in cvr_entry :
         e.client_group_id = "g1" /\ e.tbl = TableOrdinal(table) /\ e.row_id = j /\ e.order <= b
    /\ findDeletions(DB, cvr_entry, cvr_delete_entry, table, "g1", b, MaxLimit) = {{i}}

\* the rows of the row store, as a cache holds them
storeRows == [issue |-> issue, description |-> description, comment |-> comment]

\* C16: once the row store is quiescent and the client group has diffed and
\* recorded until both puts and deletes are empty, the client cache obtained
\* by applying every returned put and delete in order holds exactly the rows
\* of the row store at their current row versions.
CacheCorrect == view.synced => view.cache = storeRows

\* the possible puts and deletes of a table from given CVR tables
tableDiff(tables, table, g, b, L) ==
  [puts |-> findUnsentItems(DB, tables.entries, table, g, b, L),
   deletes |-> findDeletions(DB, tables.entries, tables.deletes, table, g, b, L)]

\* C17: for the base order b a client rewinds to (its checkpoint),
\* dropCVREntries(g, b) followed by a diff against b returns the same puts and
\* the same deletes as a diff against b on the CVR tables of the history in
\* which no sync with an order > b was ever recorded for g.
RewindCorrect ==
  \A table \in Tables, L \in Limits :
    tableDiff(dropCVREntries(cvr_entry, cvr_delete_entry, "g1", view.order),
              table, "g1", view.order, L)
      = tableDiff(asOf, table, "g1", view.order, L)

\* a step deletes row id of the table, which the client holds at its current
\* version after the diffs recorded up to its checkpoint, with no other
\* deletion of the table left to send
DeletesSentRow(table, id) ==
  /\ view.order >= 1
  /\ DB[table][id] # 0
  /\ view.cache[table][id] = DB[table][id]
  /\ findDeletions(DB, cvr_entry, cvr_delete_entry, table, "g1", view.order, MaxLimit) = {{}}
  /\ DB'[table][id] = 0
  /\ \A j \in DOMAIN DB[table] \ {id} : DB'[table][j] = DB[table][j]

\* the diff against checkpoint K after the deletion of one row holds that row
DeleteReported ==
  \A table \in Tables : \A id \in DOMAIN DB[table] :
    DeletesSentRow(table, id) =>
      findDeletions(DB', cvr_entry', cvr_delete_entry', table, "g1", view'.order, MaxLimit)
        = {{id}}

\* a deletion recorded at a checkpoint is in no diff against that checkpoint
\* or a higher one
NoDuplicateDelete ==
  \A d \in cvr_delete_entry : \A table \in Tables, b \in Orders, L \in Limits :
    (d.tbl = TableOrdinal(table) /\ b >= d.order) =>
      \A R \in findDeletions(DB, cvr_entry, cvr_delete_entry, table,
                             d.client_group_id, b, L) : d.row_id \notin R

\* C18: after a diff whose results were recorded at checkpoint K, deleting
\* one row from the row store and diffing against base K yields exactly that
\* row's id as deletes; once recordDeletes has recorded it at the new
\* checkpoint, no diff against that checkpoint or a higher one holds the id
\* again.
DiffIncremental == [][DeleteReported]_vars /\ []NoDuplicateDelete

\* C19: for a client group with no recorded CVR entries, diffing at base
\* order 0 a table that holds rows R1..Rn with a limit >= n returns exactly
\* {R1..Rn} as puts and no deletes.
DiffComplete ==
  \A table \in Tables, g \in Groups, L \in Limits :
    ((~\E e \in cvr_entry : e.client_group_id = g)
       /\ L >= Cardinality(tableRows(DB, table))) =>
      /\ findUnsentItems(DB, cvr_entry, table, g, 0, L) = {tableRows(DB, table)}
      /\ findDeletions(DB, cvr_entry, cvr_delete_entry, table, g, 0, L) = {{}}

\* a group without CVR entries diffs a table of two rows with limit two,
\* while another group has entries for rows of that table
DiffCompleteWitness ==
  \E table \in Tables, g \in Groups :
    /\ ~\E e \in cvr_entry : e.client_group_id = g
    /\ \E e \in cvr_entry : e.tbl = TableOrdinal(table)
    /\ Cardinality(tableRows(DB, table)) = 2
    /\ MaxLimit >= 2
    /\ findUnsentItems(DB, cvr_entry, table, g, 0, MaxLimit) = {tableRows(DB, table)}

\* the cvr_entry rows of one key
entriesOf(entries, g, tbl, id) ==
  {e \in entries : e.client_group_id = g /\ e.tbl = tbl /\ e.row_id = id}

\* cvr_entry holds at most one row per (client_group_id, tbl, row_id)
KeyUnique ==
  \A e, f \in cvr_entry : sameKey(e, f) => e = f

\* recordUpdates of one row at a later order: the row of its key holds the
\* new row_version and order, and the rows of all other keys are left alone
UpsertReplaces ==
  \A table \in Tables, g \in Groups, o \in Orders :
    \A u \in [id : DOMAIN DB[table], rowversion : 1..MaxVersion] :
      LET after == recordUpdates(cvr_entry, table, g, o, {u})
      IN  /\ entriesOf(after, g, TableOrdinal(table), u.id)
               = {[client_group_id |-> g, order |-> o, tbl |-> TableOrdinal(table),
                   row_id |-> u.id, row_version |-> u.rowversion]}
          /\ \A e \in cvr_entry \cup after :
               ~(e.client_group_id = g /\ e.tbl = TableOrdinal(table) /\ e.row_id = u.id)
                 => (e \in after <=> e \in cvr_entry)

\* C20: in every reachable state cvr_entry holds at most one row per
\* (clientGroupID, table, rowID); recordUpdates for a key that already exists
\* replaces that row's row_version and order with the new values instead of
\* adding a second row, and leaves the entries of all other keys unchanged.
CVREntryKeyUnique == KeyUnique /\ UpsertReplaces

\* a sync has recorded a row again: its entry holds a later order and another
\* version than the first sync recorded, next to an entry of the first sync
CVREntryKeyUniqueWitness ==
  \E e, f \in cvr_entry :
    /\ e.order > 1
    /\ e.row_version = 2
    /\ f.order = 1
    /\ f.tbl = e.tbl
    /\ f.row_id # e.row_id
    /\ asOf.entries # cvr_entry
    /\ \E old \in asOf.entries : sameKey(old, e) /\ old # e

\* what a diff of g1 against base b has yet to send: the unsent rows and the
\* unsent deletions of all tables
pending(b) ==
  Cardinality(unsent("issue", "g1", b)) + Cardinality(deleted("issue", "g1", b))
  + Cardinality(unsent("description", "g1", b)) + Cardinality(deleted("description", "g1", b))
  + Cardinality(unsent("comment", "g1", b)) + Cardinality(deleted("comment", "g1", b))

\* a pull after the pushes have stopped, diffed at the order the pull before
\* recorded and recorded at the next order: it returns nothing only when
\* nothing is left to send, and otherwise leaves less to send
PagingProgress ==
  (quiescent /\ view'.order = view.order + 1) =>
    IF pending(view.order) = 0
    THEN view'.synced /\ pending(view.order)' = 0
    ELSE ~view'.synced /\ pending(view.order)' < pending(view.order)

\* C21: with the row store quiescent and a limit >= 1, repeatedly diffing
\* the client group at the previously recorded order and recording the puts
\* and deletes at the next order eventually reaches a round in which puts and
\* deletes are both empty, and every round before that returns at least one
\* put or delete.
PagingTerminates ==
  /\ [][PagingProgress]_vars
  /\ quiescent ~> (quiescent /\ view.synced)

\* the pushes stopped at the last order of the first phase; two pulls paged
\* rows of one table, and a third returned nothing
PagingTerminatesWitness ==
  /\ quiescent
  /\ view.synced
  /\ \E e, f \in cvr_entry :
       e.tbl = f.tbl /\ e.order = MaxOrder + 1 /\ f.order = MaxOrder + 2

\* the CVR tables, and the rows of them that belong to one client group
CVR == [entries |-> cvr_entry, deletes |-> cvr_delete_entry]
ownRows(tables, g) ==
  [entries |-> {e \in tables.entries : e.client_group_id = g},
   deletes |-> {d \in tables.deletes : d.client_group_id = g}]

\* a diff for g returns what it returns on g's own rows alone
DiffOfOwnRows ==
  \A g \in Groups, table \in Tables, b \in Orders, L \in Limits :
    tableDiff(CVR, table, g, b, L) = tableDiff(ownRows(CVR, g), table, g, b, L)

\* dropCVREntries(g, b) removes no row of another group
DropKeepsOthers ==
  \A g \in Groups, b \in Orders : \A other \in Groups \ {g} :
    ownRows(dropCVREntries(cvr_entry, cvr_delete_entry, g, b), other) = ownRows(CVR, other)

\* a step that drops, records or upserts rows of one group leaves the rows
\* of every other group as they were, and so, a diff being one of the
\* group's own rows and the row store, what a diff for that group returns
OtherGroupsUntouched ==
  \A g \in Groups :
    (CVR' # CVR /\ ownRows(CVR, g)' # ownRows(CVR, g)) =>
      /\ rowStore' = rowStore
      /\ \A other \in Groups \ {g} : ownRows(CVR, other)' = ownRows(CVR, other)

\* C22: what findUnsentItems and findDeletions return for a client group
\* depends only on the row store and on that group's own cvr_entry and
\* cvr_delete_entry rows; recording, upserting or dropping rows of another
\* group never changes it, and dropCVREntries(g, b) removes no row of
\* another group.
GroupsIndependent ==
  /\ []DiffOfOwnRows
  /\ []DropKeepsOthers
  /\ [][OtherGroupsUntouched]_vars

\* both groups have recorded rows, the first also a deletion and a row at
\* its second order, and their diffs of one table differ
GroupsIndependentWitness ==
  /\ \E e \in cvr_entry : e.client_group_id = "g1" /\ e.order = 2
  /\ \E d \in cvr_delete_entry : d.client_group_id = "g1"
  /\ \E e \in cvr_entry : e.client_group_id = "g2"
  /\ \E table \in Tables, b \in Orders :
       tableDiff(CVR, table, "g1", b, MaxLimit) # tableDiff(CVR, table, "g2", b, MaxLimit)

\* the error pass of push request p is called for a mutation with the
\* expected id
ErrorPassExpected(p) ==
  /\ pc[p] = "errorPass"
  /\ cur[p].id = client[cur[p].clientID].lastMutationID + 1
  /\ ErrorPassStep(p)

\* what the error pass of p leaves alone: the row store, the writes in
\* flight, the effects committed so far, cvrVersion, every other client
\* group and every other client
ErrorPassFrame(p) ==
  /\ outcome'[p] = "versionOnly"
  /\ rowStore' = rowStore
  /\ floating' = floating
  /\ \A c \in Clients, i \in 1..MaxId :
       /\ hist'[c][i].applied = hist[c][i].applied
       /\ hist'[c][i].visible = hist[c][i].visible
  /\ \A g \in Groups :
       /\ clientGroup'[g].cvrVersion = clientGroup[g].cvrVersion
       /\ g # req[p].clientGroupID => clientGroup'[g] = clientGroup[g]
  /\ \A c \in Clients \ {cur[p].clientID} : client'[c] = client[c]

ClientStaysBound ==
  [][\A c \in Clients :
       client[c].clientGroupID # NoGroup =>
         /\ client'[c].clientGroupID = client[c].clientGroupID
         /\ \A p \in Procs :
              (/\ pc[p] \in {"loop", "errorPass"}
               /\ req[p].clientGroupID # client[c].clientGroupID
               /\ pc'[p] # pc[p] \/ req'[p] # req[p]
               /\ \/ \E mutation \in AnyMutation :
                       mutation.clientID = c /\ FirstPassStep(p, mutation)
                  \/ cur[p].clientID = c /\ ErrorPassStep(p))
              => /\ client'[c].lastMutationID = client[c].lastMutationID
                 /\ clientGroup'[req[p].clientGroupID].clientVersion
                      = clientGroup[req[p].clientGroupID].clientVersion]_vars

\* the sum of lastMutationID over the clients bound to client group g
RECURSIVE sumLastMutationID(_, _)
sumLastMutationID(cs, g) ==
  IF cs = {} THEN 0
  ELSE LET c == CHOOSE x \in cs : TRUE
       IN  (IF client[c].clientGroupID = g THEN client[c].lastMutationID ELSE 0)
           + sumLastMutationID(cs \ {c}, g)

\* a group's clientVersion counts the mutations of its clients, and bounds
\* the clientVersion of each of them
CountersAccount ==
  \A g \in Groups :
    /\ clientGroup[g].clientVersion = sumLastMutationID(Clients, g)
    /\ \A c \in Clients :
         client[c].clientGroupID = g =>
           /\ client[c].clientVersion >= 0
           /\ client[c].clientVersion <= clientGroup[g].clientVersion

\* a client's clientVersion is the value its group's clientVersion took in
\* the transaction that last advanced the client
ClientVersionOfLastAdvance ==
  \A c \in Clients :
    IF client'[c].lastMutationID # client[c].lastMutationID
    THEN client'[c].clientVersion = clientGroup'[client'[c].clientGroupID].clientVersion
    ELSE client'[c].clientVersion = client[c].clientVersion

\* C25: in every reachable state, for every client group G, G.clientVersion
\* equals the sum of lastMutationID over the clients whose clientGroupID is
\* G, and every such client's clientVersion is at least 0 and at most
\* G.clientVersion, equal to the value G.clientVersion took in the
\* transaction that last advanced that client.
CounterAccounting == []CountersAccount /\ [][ClientVersionOfLastAdvance]_vars

\* the CVR rows recorded for one table
ofTable(tables, table) ==
  [entries |-> {e \in tables.entries : e.tbl = TableOrdinal(table)},
   deletes |-> {d \in tables.deletes : d.tbl = TableOrdinal(table)}]

\* a diff of a table returns what it returns on the CVR rows of that table
DiffOfOwnTable ==
  \A g \in Groups, table \in Tables, b \in Orders, L \in Limits :
    tableDiff(CVR, table, g, b, L) = tableDiff(ofTable(CVR, table), table, g, b, L)

\* recordUpdates of a row of one table leaves the entries of every other
\* table as they were
RecordKeepsOtherTables ==
  \A table \in Tables, g \in Groups, o \in Orders :
    \A u \in [id : DOMAIN DB[table], rowversion : 1..MaxVersion] :
      \A other \in Tables \ {table} :
        ofTable([entries |-> recordUpdates(cvr_entry, table, g, o, {u}), deletes |-> {}],
                other).entries
          = ofTable(CVR, other).entries

\* C26: a cvr_entry or cvr_delete_entry recorded for one table never affects
\* the diff of another table, even when the row ids coincide: findUnsentItems
\* and findDeletions for a table consult only the CVR rows of that table's
\* ordinal, and recordUpdates for a table never overwrites the entry of
\* another table with the same row id.
TablesIsolated == DiffOfOwnTable /\ RecordKeepsOtherTables

\* an issue and its description, which share their id, are recorded at
\* different versions and orders, the diffs of the two tables differ, and
\* the deletion of a comment of the same id is recorded
TablesIsolatedWitness ==
  \E e, f \in cvr_entry :
    /\ e.tbl = TableOrdinal("issue")
    /\ f.tbl = TableOrdinal("description")
    /\ e.row_id = f.row_id
    /\ e.row_version # f.row_version
    /\ e.order # f.order
    /\ \E b \in Orders :
         Cardinality(unsent("issue", "g1", b)) # Cardinality(unsent("description", "g1", b))
    /\ \E d \in cvr_delete_entry : d.tbl = TableOrdinal("comment") /\ d.row_id = e.row_id

\* a transaction of push request p commits, in either pass
PushTransaction(p) ==
  \/ \E mutation \in AnyMutation : FirstPassStep(p, mutation)
  \/ ErrorPassStep(p)

\* the sync bookkeeping is what it was: the cvrVersion of every client group
\* and the rows of cvr, cvr_entry and cvr_delete_entry
BookkeepingKept ==
  /\ \A g \in Groups : clientGroup'[g].cvrVersion = clientGroup[g].cvrVersion
  /\ cvr' = cvr
  /\ cvr_entry' = cvr_entry
  /\ cvr_delete_entry' = cvr_delete_entry

\* C27: no push transaction changes the cvrVersion of a client group (the
\* value it writes back is the one it read) and none adds, changes or removes
\* a row of cvr, cvr_entry or cvr_delete_entry; the same holds for a write a
\* push left in flight that lands later.  Pulls, which do change them, run
\* between the transactions.
PushKeepsBookkeeping ==
  [][((\E p \in Procs : PushTransaction(p)) \/ floating' # floating)
       => BookkeepingKept]_vars

\* a push transaction advanced the client version of a client group after a
\* pull had set its cvrVersion and had recorded rows and a header for it
PushKeepsBookkeepingWitness ==
  \E g \in Groups : \E h \in getCVR(cvr, g, clientGroup[g].cvrVersion) :
    /\ clientGroup[g].cvrVersion > 0
    /\ clientGroup[g].clientVersion > h.clientVersion
    /\ \E e \in cvr_entry : e.client_group_id = g

============================================================================
